---- MODULE Spec2Model ----
(***************************************************************************)
(* Model of Downloader.downloadFileMultiple (src/src/utils/Downloader.ts)  *)
(* as it is driven by Launch.DownloadGame / Launch.cancel                  *)
(* (src/unnamed/part_003).                                                 *)
(*                                                                         *)
(* One behaviour is one call downloadFileMultiple(files, totalSize,        *)
(* limit, timeout).  The descriptors of `files` are numbered 1..n.  Each   *)
(* action is one turn of the Node.js event loop: an event handler together *)
(* with every promise continuation (microtask) it makes runnable.  The     *)
(* for-loop of lines 144-148 is the one exception: each of its iterations  *)
(* is a step of its own (LoopStep), and while the loop is runnable         *)
(* (pc = "loop") no other event is served, exactly as microtasks run       *)
(* before the event loop gets control back.                                *)
(*                                                                         *)
(* Downloader.checkURL / checkMirror (same file, lines 154-184) and the    *)
(* error classes and wrapError of src/unnamed/part_001 have specifications *)
(* of their own (ProbeSpec, ClassSpec), in which no download is under way. *)
(* So have fetchWithRetry (RetrySpec), the launchers' validation of the     *)
(* concurrency option (LimitSpec) and Launch.start / DownloadGame / cancel  *)
(* of src/unnamed/part_003 (LaunchSpec).                                    *)
(***************************************************************************)
EXTENDS Integers, Sequences, FiniteSets

\* ---- bounds of the model -------------------------------------------------
MaxFiles == 3
MaxLimit == 4
MaxNegLimit == 1
MaxUnderflow == 2
MaxChunks == 1
MaxEstFiles == 2

Min(a, b) == IF a < b THEN a ELSE b
Max(a, b) == IF a > b THEN a ELSE b

VARIABLES
    n,          \* files.length
    requested,  \* the `limit` argument as passed by the caller
    limit,      \* the local `limit` after line 73
    size,       \* per descriptor: number of bytes its response body delivers
    totalSize,  \* the `totalSize` argument
    i,          \* loop variable of line 144
    pc,         \* position of downloadFileMultiple: "loop", "await", "done"
    batch,      \* descriptors of the Promise.all being awaited (line 145)
    status,     \* per descriptor: queued, fetching, streaming, completed, failed
    stream,     \* per descriptor, its response body: none, open, ended, errored
    received,   \* per descriptor: bytes its 'data' handler has seen
    err,        \* per descriptor: kind of the error its promise rejected with
    completed,  \* the counter `completed` (line 75)
    downloaded, \* the counter `downloaded` (line 76)
    progress,   \* bytesSoFar of the last 'progress' event, -1 before the first
    emitted,    \* descriptors for which an 'error' event was emitted
    failOrder,  \* descriptors in the order their promises rejected
    started,    \* descriptors in the order downloadFile was called on them
    settled,    \* the returned promise: pending, resolved, rejected
    error,      \* descriptor whose error rejected the returned promise, 0 if none
    aborted,    \* abortController.signal.aborted (Launch.cancel)
    speedInterval, \* TRUE while the timer of line 83 is set
    before,     \* `before` (line 80)
    speeds,     \* `speeds` (line 81)
    recent,     \* the last WindowCap + 1 rates measured, oldest first
    counted,    \* bytes attributed to an interval by the ticks so far
    speed,      \* payload of the last 'speed' event
    estimated,  \* payload of the last 'estimated' event
    mirrors,    \* checkMirror: what each mirror of the list answers to a HEAD
    cmPc,       \* checkMirror: "idle", "probing" (at the await of line 173), "done"
    cmIdx,      \* checkMirror: position of the for-of loop of line 171
    inflight,   \* mirrors whose HEAD request is awaiting its answer
    contacted,  \* mirrors this call of checkMirror sent a request to, in order
    probe,      \* the last call of checkURL: its response and what it returned
    results,    \* what the calls of checkMirror made so far returned
    thrown,     \* errors.ts: the error handed to the classifier
    classified, \* errors.ts: the error object the classifier built from it
    verdict,    \* errors.ts: what isRecoverableError answered for the two of them
    retries,    \* fetchWithRetry: the `retries` argument
    frI,        \* fetchWithRetry: the loop variable i (part_003 line 14)
    frPc,       \* fetchWithRetry: "request", "delay", "returned", "threw"
    answers,    \* fetchWithRetry: what each request made so far was answered
    delays,     \* fetchWithRetry: number of setTimeout waits started (line 27)
    lastError,  \* fetchWithRetry: `lastError` (line 13)
    frResult,   \* fetchWithRetry: status of the response returned, 0 if none
    option,     \* the caller's options.downloadFileMultiple
    validated,  \* options.downloadFileMultiple after a launcher validated it
    lpc,        \* Launch.start: the await it is suspended at, "idle", "ended"
    isCancelled,          \* Launch.isCancelled
    isLaunching,          \* Launch.isLaunching
    memoryCheckInterval,  \* PerformanceMonitor: the handle field holds a live timer
    timers,     \* PerformanceMonitor: memory-sampling intervals set and not cleared
    minecraftProcess,     \* this launch has spawned the game
    complete,   \* this launch has emitted 'complete'
    downloadsComplete,    \* this launch has emitted 'downloads_complete'
    cancelCalled,         \* cancel() was called during this launch
    errorEvents,          \* 'error' events this launch emitted on the Launch emitter
    failure,    \* kind of the transfer failure of this launch, "none" if none
    ending,     \* how this launch ended
    launches,   \* launches started so far
    truncated   \* descriptors whose destination was opened with flags 'w' (line 103)

inputs == <<n, requested, limit, size, totalSize>>
estimator == <<before, speeds, recent, counted, speed, estimated>>
prober == <<mirrors, cmPc, cmIdx, inflight, contacted, probe, results>>
classifier == <<thrown, classified, verdict>>
retrier == <<retries, frI, frPc, answers, delays, lastError, frResult>>
limits == <<option, validated>>
launcher == <<lpc, isCancelled, isLaunching, memoryCheckInterval, timers,
              minecraftProcess, complete, downloadsComplete, cancelCalled,
              errorEvents, failure, ending, launches>>
aside == <<prober, classifier, retrier, limits, launcher>>
vars == <<n, requested, limit, size, totalSize, i, pc, batch, status, stream,
          received, err, completed, downloaded, progress, emitted, failOrder,
          started, settled, error, aborted, speedInterval, before, speeds,
          recent, counted, speed, estimated, mirrors, cmPc, cmIdx, inflight,
          contacted, probe, results, thrown, classified, verdict, truncated, retries,
          frI, frPc, answers, delays, lastError, frResult, option, validated,
          lpc, isCancelled, isLaunching, memoryCheckInterval, timers,
          minecraftProcess, complete, downloadsComplete, cancelCalled,
          errorEvents, failure, ending, launches>>
downloader == <<inputs, estimator, i, pc, batch, status, stream, received, err,
                completed, downloaded, progress, emitted, failOrder, started,
                settled, error, aborted, speedInterval, truncated>>

Files == 1..n

\* ---- error kinds and their classification --------------------------------
FetchErrors == {"HTTP_404", "ECONNREFUSED", "TIMEOUT"}
StreamErrors == {"BODY_ERROR", "WRITE_ERROR"}
ErrorKinds == FetchErrors \cup StreamErrors \cup {"MKDIR"}

\* The words, among those the classification looks for, that occur in the
\* message of a representative error of each kind ("HTTP <status>: ..." is
\* built on line 109; the others come from the transport and the filesystem).
Message(kind) ==
    CASE kind = "HTTP_404"     -> {"HTTP", "404"}
      [] kind = "ECONNREFUSED" -> {"ECONNREFUSED"}
      [] kind = "TIMEOUT"      -> {"timeout"}
      [] kind = "BODY_ERROR"   -> {"ECONNRESET"}
      [] kind = "WRITE_ERROR"  -> {"ENOSPC"}
      [] kind = "MKDIR"        -> {"EACCES"}
      [] OTHER                 -> {}

\* part_001 lines 266-271: the test isRecoverableError makes on the message
\* of an error that is no OriCoreError.
IncludesRetryableNoLookup(message) ==
    message \cap {"ECONNRESET", "ETIMEDOUT", "ECONNREFUSED"} # {}
IncludesRetryable(message) ==
    message \cap {"ECONNRESET", "ETIMEDOUT", "ENOTFOUND", "ECONNREFUSED"} # {}

\* isRecoverableError applied to a raw (non-OriCoreError) Error.
isRecoverableError(kind) == IncludesRetryable(Message(kind))

\* The class of the error object of each kind: line 109 builds a plain Error,
\* the transport and the filesystem raise their own errors; lines 127, 131
\* and 137-138 pass the object on as it is.
ErrorClass(kind) ==
    CASE kind = "HTTP_404"     -> "Error"
      [] kind = "ECONNREFUSED" -> "FetchError"
      [] kind = "TIMEOUT"      -> "FetchError"
      [] kind = "BODY_ERROR"   -> "FetchError"
      [] kind = "WRITE_ERROR"  -> "Error"
      [] kind = "MKDIR"        -> "Error"
      [] OTHER                 -> "none"

\* The classes of part_001 that carry `code` and `recoverable`.
OriCoreErrors ==
    {"NetworkError", "DownloadError", "TimeoutError", "ConnectionError",
     "FileSystemError", "AuthenticationError", "ConfigurationError",
     "VersionError", "JavaError", "LoaderError", "LaunchError",
     "ValidationError", "UNKNOWN_ERROR"}

\* ---- pure helpers --------------------------------------------------------
\* Line 73: if (limit > files.length) limit = files.length
ClampNone(l, len) == l
Clamp(l, len) == IF l > len THEN len ELSE l

\* Array.prototype.slice(s, e) of an array of length len, as the set of the
\* (1-based) positions it returns.
SliceIdxInclusive(s, e, len) ==
    LET from == IF s < 0 THEN Max(len + s, 0) ELSE Min(s, len)
        to   == IF e < 0 THEN Max(len + e, 0) ELSE Min(e, len)
    IN  {k \in 1..len : from < k /\ k <= to + 1}
SliceIdx(s, e, len) ==
    LET from == IF s < 0 THEN Max(len + s, 0) ELSE Min(s, len)
        to   == IF e < 0 THEN Max(len + e, 0) ELSE Min(e, len)
    IN  {k \in 1..len : from < k /\ k <= to}

\* Line 144: i += limit.  Every i < 0 selects the empty slice and passes the
\* loop condition, so values below -MaxUnderflow are represented by it.
Advance(j, l) == Max(j + l, 0 - MaxUnderflow)

\* The elements of the set S of numbers as an increasing sequence.
RECURSIVE Descending(_)
Descending(S) ==
    IF S = {} THEN <<>>
    ELSE LET m == CHOOSE x \in S : \A y \in S : x >= y
         IN  <<m>> \o Descending(S \ {m})
RECURSIVE Ascending(_)
Ascending(S) ==
    IF S = {} THEN <<>>
    ELSE LET m == CHOOSE x \in S : \A y \in S : x <= y
         IN  <<m>> \o Ascending(S \ {m})

\* State of Promise.all(batchPromises), line 147: it rejects as soon as one
\* promise of the batch rejects and fulfils when all of them have fulfilled.
PromiseAllSettled(st, b) ==
    IF \A k \in b : st[k] \in {"completed", "failed"} THEN "fulfilled" ELSE "pending"
PromiseAllAny(st, b) ==
    IF \E k \in b : st[k] = "failed" THEN "rejected"
    ELSE IF b = {} \/ \E k \in b : st[k] = "completed" THEN "fulfilled"
    ELSE "pending"
PromiseAll(st, b) ==
    IF \E k \in b : st[k] = "failed" THEN "rejected"
    ELSE IF \A k \in b : st[k] = "completed" THEN "fulfilled"
    ELSE "pending"

Active == {k \in Files : status[k] \in {"fetching", "streaming"}}
Queued == {k \in Files : status[k] = "queued"}
Failed == {k \in Files : status[k] = "failed"}

\* ---- the estimator's arithmetic, lines 83-96 ---------------------------
\* Period of the timer (line 96) and capacity of the window (line 86).
IntervalMs == 500
WindowCap == 5

RECURSIVE SumSeq(_)
SumSeq(q) == IF q = <<>> THEN 0 ELSE Head(q) + SumSeq(Tail(q))

RECURSIVE SumSize(_, _)
SumSize(f, m) == IF m = 0 THEN 0 ELSE f[m] + SumSize(f, m - 1)

\* A JavaScript number: a quotient num/den, or what a division by zero gives.
Number(num, den) == [kind |-> "number", num |-> num, den |-> den]
NoNumber == [kind |-> "none", num |-> 0, den |-> 1]

\* a / b for integers a and a quotient b, as JavaScript evaluates it.
Divide(a, b) ==
    IF b.num # 0 THEN Number(a * b.den, b.num)
    ELSE IF a > 0 THEN [kind |-> "Infinity", num |-> 0, den |-> 1]
    ELSE IF a < 0 THEN [kind |-> "-Infinity", num |-> 0, den |-> 1]
    ELSE [kind |-> "NaN", num |-> 0, den |-> 1]

\* Lines 84-87: the rate of an interval in which `delta` bytes arrived; the
\* timer fires every IntervalMs, so duration = IntervalMs / 1000 seconds.
Rate(delta) == (((delta * 8) * 1000) \div IntervalMs) \div 8

\* Lines 86-87: if (speeds.length >= 5) speeds = speeds.slice(1); push.
PushKeepOldest(w, x) == IF Len(w) >= WindowCap THEN w ELSE Append(w, x)
Push(w, x) == Append(IF Len(w) >= WindowCap THEN Tail(w) ELSE w, x)

\* Lines 88-90: the mean of the window.
Mean(w) == Number(SumSeq(w), Len(w))

\* Line 95: before = downloaded.
KeepBefore(old, now) == old
NextBefore(old, now) == now

\* Line 114: downloaded += chunk.length.
AddChunkAssign(d, len) == len
AddChunk(d, len) == d + len

\* Line 150: clearInterval(speedInterval) in the finally block.
clearIntervalSkipped(t) == t
clearInterval(t) == FALSE

\* The last m elements of q.
LastOf(q, m) == SubSeq(q, Len(q) - m + 1, Len(q))

\* ---- checkURL and checkMirror, lines 154-184: pure parts --------------------
MaxMirrors == 3
MaxCalls == 2

\* What a mirror does with a HEAD request: it answers with a status and,
\* possibly, a content-length header (a string of decimal digits, <<>> when
\* the header is absent), or the request fails ("error"), or no answer comes
\* within the timeout ("timeout"); node-fetch rejects in the last two cases.
Statuses == {200, 204, 404}
ContentLengths == {<<>>, <<1, 0>>}
Responses ==
    [outcome : {"response"}, status : Statuses, length : ContentLengths]
    \cup [outcome : {"error", "timeout"}, status : {0}, length : {<<>>}]

\* parseInt of a non-empty string of decimal digits (line 160).
RECURSIVE parseInt(_)
parseInt(d) ==
    IF Len(d) = 1 THEN d[1]
    ELSE 10 * parseInt(SubSeq(d, 1, Len(d) - 1)) + d[Len(d)]

\* The values an awaited checkURL produces: `false` or { size, status };
\* `threw` marks a rejection, which the catch of line 165 never lets out.
False == [threw |-> FALSE, found |-> FALSE, size |-> 0, status |-> 0]

\* Lines 155-167.  Every rejection of nodeFetch lands in the catch.
checkURLAnyOk(r) ==
    IF r.outcome = "response"
    THEN IF r.status \in 200..299
         THEN [threw |-> FALSE, found |-> TRUE,
               size |-> IF r.length # <<>> THEN parseInt(r.length) ELSE 0,
               status |-> r.status]
         ELSE False
    ELSE False
checkURL(r) ==
    IF r.outcome = "response"
    THEN IF r.status = 200
         THEN [threw |-> FALSE, found |-> TRUE,
               size |-> IF r.length # <<>> THEN parseInt(r.length) ELSE 0,
               status |-> r.status]
         ELSE False
    ELSE False

\* Line 172: the probed URL is the mirror followed by '/' and the path.
Url(j) == <<j, "/", "baseURL">>
NoUrl == <<0, "", "">>

\* The values checkMirror produces: `false`, { url, size, status }, or a
\* rejection when the awaited checkURL rejects.
NoMirror == [threw |-> FALSE, found |-> FALSE, url |-> NoUrl, size |-> 0, status |-> 0]
MirrorRejection == [threw |-> TRUE, found |-> FALSE, url |-> NoUrl, size |-> 0, status |-> 0]

\* Lines 171-183: what the loop does with the result r of probing mirror j
\* of m: return it, go on to the next mirror, or fall out of the loop.
DecideGiveUp(r, j, m) ==
    IF r.threw THEN "throw"
    ELSE IF r.found /\ r.status = 200 THEN "return" ELSE "false"
DecideKeepGoing(r, j, m) ==
    IF r.threw THEN "throw"
    ELSE IF j < m THEN "next"
    ELSE IF r.found /\ r.status = 200 THEN "return" ELSE "false"
Decide(r, j, m) ==
    IF r.threw THEN "throw"
    ELSE IF r.found /\ r.status = 200 THEN "return"
    ELSE IF j < m THEN "next" ELSE "false"

\* Line 171: each call iterates the list from its first element, wherever
\* the previous call stopped.
FirstIndexAfter(last) == last + 1
FirstIndex(last) == 1

NoProbe ==
    [called |-> FALSE, result |-> False,
     response |-> [outcome |-> "error", status |-> 0, length |-> <<>>]]

\* ---- the error classes and wrapError, part_001: pure parts ------------------
\* A message is modelled by the set of the patterns it contains.
Patterns == {"ECONNRESET", "ECONNREFUSED", "ETIMEDOUT", "ENOTFOUND",
             "ENOENT", "EACCES", "EPERM", "ENOSPC"}
HttpStatuses == {404, 500}

\* Messages also carry text that matches no pattern.
Words == Patterns \cup {"HTTP", "hang up"}

\* The optional `context` argument: omitted, or an object whose fields may
\* be missing.
NoContext == [given |-> FALSE, path |-> "undefined", operation |-> "undefined",
              timeout |-> "undefined"]
Contexts ==
    {NoContext} \cup
    [given : {TRUE}, path : {"undefined", "/game"},
     operation : {"undefined", "write"}, timeout : {"undefined", "5000"}]

\* context?.field (optional chaining) against context.field, which throws a
\* TypeError on an omitted context.
Strict(context, field) ==
    IF context.given THEN context[field] ELSE "TypeError"
Opt(context, field) ==
    IF context.given THEN context[field] ELSE "undefined"

\* value || fallback, for the values above.
OrElse(value, fallback) == IF value = "undefined" THEN fallback ELSE value

\* Lines 8-25: the fields an error object carries.
OriCoreError(name, message, code, recoverable, fields) ==
    [name |-> name, message |-> message, code |-> code,
     recoverable |-> recoverable, path |-> fields.path,
     operation |-> fields.operation, timeout |-> fields.timeout,
     statusCode |-> fields.statusCode]
NoFields == [path |-> "undefined", operation |-> "undefined",
             timeout |-> "undefined", statusCode |-> 0]

\* Lines 43-47: every NetworkError is built with recoverable = true.
NetworkError(name, message, code, fields) ==
    OriCoreError(name, message, code, TRUE, fields)

\* Lines 79-86.
FileSystemError(message, path, operation, recoverable, code) ==
    OriCoreError("FileSystemError", message, code, recoverable,
                 [NoFields EXCEPT !.path = path, !.operation = operation])

\* Lines 49-57: the status code goes into the fields; it does not reach the
\* recoverable flag, which NetworkError sets.
DownloadError(message, statusCode) ==
    NetworkError("DownloadError", message, "DOWNLOAD_ERROR",
                 [NoFields EXCEPT !.statusCode = statusCode])

\* Lines 59-65.
TimeoutError(message, timeout) ==
    NetworkError("TimeoutError", message, "TIMEOUT_ERROR",
                 [NoFields EXCEPT !.timeout = timeout])

\* Lines 67-71.
ConnectionError(message, code) ==
    NetworkError("ConnectionError", message, code, NoFields)

\* Lines 308-313: the anonymous subclass of the default branch.
UnknownErrorRecoverable(message) ==
    OriCoreError("", message, "UNKNOWN_ERROR", TRUE, NoFields)
UnknownError(message) ==
    OriCoreError("", message, "UNKNOWN_ERROR", FALSE, NoFields)

\* An expression that evaluated a throwing sub-expression throws.
Evaluated(e) ==
    IF "TypeError" \in {e.path, e.operation, e.timeout}
    THEN [e EXCEPT !.name = "TypeError"]
    ELSE e

\* Lines 279-314, the branches in the order of the source.
wrapErrorFileFirst(message, context) ==
    Evaluated(
    IF "ENOENT" \in message
    THEN FileSystemError(message, OrElse(Opt(context, "path"), ""), "read",
                         FALSE, "FILE_NOT_FOUND")
    ELSE IF message \cap {"EACCES", "EPERM"} # {}
    THEN FileSystemError(message, OrElse(Opt(context, "path"), ""),
                         OrElse(Opt(context, "operation"), "access"),
                         FALSE, "PERMISSION_DENIED")
    ELSE IF "ENOSPC" \in message
    THEN FileSystemError(message, OrElse(Opt(context, "path"), ""), "write",
                         FALSE, "DISK_FULL")
    ELSE IF message \cap {"ECONNRESET", "ECONNREFUSED"} # {}
    THEN ConnectionError(message, "CONNECTION_REFUSED")
    ELSE IF "ETIMEDOUT" \in message
    THEN TimeoutError(message, OrElse(Opt(context, "timeout"), "10000"))
    ELSE IF "ENOTFOUND" \in message
    THEN ConnectionError(message, "DNS_LOOKUP_FAILED")
    ELSE UnknownError(message))
wrapError(message, context) ==
    Evaluated(
    IF message \cap {"ECONNRESET", "ECONNREFUSED"} # {}
    THEN ConnectionError(message, "CONNECTION_REFUSED")
    ELSE IF "ETIMEDOUT" \in message
    THEN TimeoutError(message, OrElse(Opt(context, "timeout"), "10000"))
    ELSE IF "ENOTFOUND" \in message
    THEN ConnectionError(message, "DNS_LOOKUP_FAILED")
    ELSE IF "ENOENT" \in message
    THEN FileSystemError(message, OrElse(Opt(context, "path"), ""), "read",
                         FALSE, "FILE_NOT_FOUND")
    ELSE IF message \cap {"EACCES", "EPERM"} # {}
    THEN FileSystemError(message, OrElse(Opt(context, "path"), ""),
                         OrElse(Opt(context, "operation"), "access"),
                         FALSE, "PERMISSION_DENIED")
    ELSE IF "ENOSPC" \in message
    THEN FileSystemError(message, OrElse(Opt(context, "path"), ""), "write",
                         FALSE, "DISK_FULL")
    ELSE UnknownError(message))

NoError == [message |-> {}, context |-> NoContext, statusCode |-> 0]
NotClassified == [by |-> "none", object |-> UnknownError({})]
NoVerdict == [askedRaw |-> FALSE, raw |-> FALSE,
              askedBuilt |-> FALSE, built |-> FALSE]

\* ---- initial state: the call has been entered (lines 72-96) ---------------
\* A call with at most maxFiles descriptors of at most maxBytes bytes each.
Entered(maxFiles, maxBytes) ==
    /\ n \in 0..maxFiles
    /\ requested \in (0 - MaxNegLimit)..MaxLimit
    /\ limit = Clamp(requested, n)
    /\ size \in [1..n -> 1..maxBytes]
    /\ totalSize \in {SumSize(size, n), SumSize(size, n) + 1}
    /\ i = 0
    /\ pc = "loop"
    /\ batch = {}
    /\ status = [k \in 1..n |-> "queued"]
    /\ stream = [k \in 1..n |-> "none"]
    /\ received = [k \in 1..n |-> 0]
    /\ err = [k \in 1..n |-> "none"]
    /\ completed = 0
    /\ downloaded = 0
    /\ progress = -1
    /\ emitted = {}
    /\ failOrder = <<>>
    /\ started = <<>>
    /\ settled = "pending"
    /\ error = 0
    /\ aborted = FALSE
    /\ speedInterval = TRUE
    /\ before = 0
    /\ speeds = <<>>
    /\ recent = <<>>
    /\ counted = 0
    /\ speed = NoNumber
    /\ estimated = NoNumber
    /\ truncated = {}

\* No call of downloadFileMultiple is under way.
NotEntered ==
    /\ Entered(0, 1)
    /\ requested = 1
    /\ totalSize = 0

\* No call of checkMirror has been made.
ProberIdle ==
    /\ mirrors = <<>>
    /\ cmPc = "idle"
    /\ cmIdx = 0
    /\ inflight = {}
    /\ contacted = <<>>
    /\ probe = NoProbe
    /\ results = <<>>

\* No error has been classified.
ClassifierIdle ==
    /\ thrown = NoError
    /\ classified = NotClassified
    /\ verdict = NoVerdict

\* ---- fetchWithRetry, part_003 lines 12-32 ----------------------------------
MaxRetries == 3

\* What a request is answered: a response with a status, or 0 when fetch
\* rejects (network failure).
FetchAnswers == {0, 200, 304, 404, 500, 503}

\* Lines 16-23: an ok response and any response below 500 are returned;
\* a rejected fetch and a 5xx response go to the catch block.
HandleRetryingClientErrors(answer) ==
    IF answer \in 200..299 THEN "return"
    ELSE IF answer = 0 \/ answer >= 400 THEN "catch"
    ELSE "return"
Handle(answer) ==
    IF answer = 0 THEN "catch"
    ELSE IF answer \in 200..299 THEN "return"
    ELSE IF answer >= 500 THEN "catch"
    ELSE "return"

\* Line 26: the delay is skipped after the last attempt.
WaitsAfter(j, r) == j < r - 1

NoLastError == [attempt |-> 0, answer |-> 0]

\* The call has been entered with r as `retries`: line 14 either sends the
\* first request or, with nothing to iterate, falls through to line 31.
Called(r) ==
    /\ retries = r
    /\ frI = 0
    /\ frPc = IF 0 < r THEN "request" ELSE "threw"
    /\ answers = <<>>
    /\ delays = 0
    /\ lastError = NoLastError
    /\ frResult = 0

\* No call of fetchWithRetry is under way.
RetrierIdle ==
    /\ retries = 0
    /\ frI = 0
    /\ frPc = "idle"
    /\ answers = <<>>
    /\ delays = 0
    /\ lastError = NoLastError
    /\ frResult = 0

\* ---- the launchers' validation of options.downloadFileMultiple -------------
MaxOption == 32

\* Launch.ts line 110 and part_003 line 435; part_003 lines 493-494 and
\* Launch.ts line 91.
DefaultLimit == 5
LimitFloor == 1
LimitCeiling == 30

\* The option as the caller gives it: omitted, or a number.
Options ==
    {[given |-> FALSE, value |-> 0]}
    \cup [given : {TRUE}, value : (0 - MaxOption)..MaxOption]

\* { ...defaults, ...options }: an omitted option takes the default.
Merged(o) == IF o.given THEN o.value ELSE DefaultLimit

\* value || fallback on numbers: 0 is falsy.
OrDefault(value, fallback) == IF value = 0 THEN fallback ELSE value

\* src/src/Launch.ts line 91.
ValidateLaunchTs(o) ==
    Max(LimitFloor, Min(LimitCeiling, OrDefault(Merged(o), DefaultLimit)))

\* part_003 lines 493-494.
ValidatePart003(o) ==
    LET low == IF Merged(o) < LimitFloor THEN LimitFloor ELSE Merged(o)
    IN  IF low > LimitCeiling THEN LimitCeiling ELSE low

NotValidated == [by |-> "none", value |-> 0]

LimitsIdle ==
    /\ option = [given |-> FALSE, value |-> 0]
    /\ validated = NotValidated

\* ---- Launch.start / DownloadGame / cancel, part_003 lines 500-803 ----------
MaxLaunches == 3

\* No launch has been made; the PerformanceMonitor singleton has no timer.
LauncherIdle ==
    /\ lpc = "idle"
    /\ isCancelled = FALSE
    /\ isLaunching = FALSE
    /\ memoryCheckInterval = FALSE
    /\ timers = 0
    /\ minecraftProcess = FALSE
    /\ complete = FALSE
    /\ downloadsComplete = FALSE
    /\ cancelCalled = FALSE
    /\ errorEvents = 0
    /\ failure = "none"
    /\ ending = "none"
    /\ launches = 0

\* part_003 lines 682-695: the 'error' events the Launch emitter emits for
\* one 'error' event of the downloader whose payload is a raw Error: the
\* else branch of line 691 and the unconditional emit of line 695.
ErrorsPerDownloaderEvent == 2

\* Downloader.ts lines 134-139 against 125-132 and 99-101: only a failed
\* request makes the downloader emit 'error' before its promise rejects.
DownloaderEmits(kind) == kind \in FetchErrors

Init ==
    /\ Entered(MaxFiles, MaxChunks)
    /\ ProberIdle
    /\ ClassifierIdle
    /\ RetrierIdle
    /\ LimitsIdle
    /\ LauncherIdle

\* ---- the scheduler loop, lines 142-151 -----------------------------------
\* One evaluation of the loop condition and, when it holds, of the loop body
\* up to the await.  downloadFile opens its destination with flags 'w'
\* (line 103) before it requests anything, which empties a file that exists;
\* a descriptor whose mkdirSync threw never gets there.  M is the set of descriptors of the batch whose
\* destination directory cannot be created (mkdirSync throws, line 100).
LoopStep ==
    /\ pc = "loop"
    /\ IF i < n
       THEN \E M \in SUBSET SliceIdx(i, i + limit, n) :
            LET b == SliceIdx(i, i + limit, n) IN
            /\ batch' = b
            /\ started' = started \o Ascending(b)
            /\ status' = [k \in 1..n |->
                            IF k \in M THEN "failed"
                            ELSE IF k \in b THEN "fetching" ELSE status[k]]
            /\ err' = [k \in 1..n |-> IF k \in M THEN "MKDIR" ELSE err[k]]
            /\ failOrder' = failOrder \o Ascending(M)
            /\ truncated' = truncated \cup (b \ M)
            /\ IF PromiseAll(status', b) = "rejected"
               THEN \* the first rejected promise rejects the call
                    /\ pc' = "done"
                    /\ settled' = "rejected"
                    /\ error' = Ascending(M)[1]
                    /\ i' = i
                    /\ speedInterval' = clearInterval(speedInterval)
               ELSE IF PromiseAll(status', b) = "fulfilled"
               THEN \* Promise.all([]) is already fulfilled: i += limit
                    /\ pc' = "loop"
                    /\ i' = Advance(i, limit)
                    /\ UNCHANGED <<settled, error, speedInterval>>
               ELSE /\ pc' = "await"
                    /\ UNCHANGED <<i, settled, error, speedInterval>>
       ELSE /\ pc' = "done"
            /\ settled' = "resolved"
            /\ speedInterval' = clearInterval(speedInterval)
            /\ UNCHANGED <<i, batch, started, status, err, failOrder, error,
                           truncated>>
    /\ UNCHANGED <<aside, inputs, estimator, stream, received, completed, downloaded,
                   progress, emitted, aborted>>

\* The continuation of `await Promise.all(batchPromises)` after descriptor k
\* fulfilled or rejected its promise; st is the new status map.
Resume(k, st) ==
    IF pc = "await" /\ k \in batch
    THEN IF PromiseAll(st, batch) = "rejected"
         THEN /\ pc' = "done"
              /\ settled' = "rejected"
              /\ error' = k
              /\ i' = i
              /\ speedInterval' = clearInterval(speedInterval)
         ELSE IF PromiseAll(st, batch) = "fulfilled"
         THEN /\ pc' = "loop"
              /\ i' = Advance(i, limit)
              /\ UNCHANGED <<settled, error, speedInterval>>
         ELSE UNCHANGED <<pc, i, settled, error, speedInterval>>
    ELSE UNCHANGED <<pc, i, settled, error, speedInterval>>

\* ---- one transfer, lines 98-140 ------------------------------------------
\* Line 106-112: the response arrived and is ok; the handlers are attached.
FetchOk(k) ==
    /\ pc # "loop"
    /\ status[k] = "fetching"
    /\ status' = [status EXCEPT ![k] = "streaming"]
    /\ stream' = [stream EXCEPT ![k] = "open"]
    /\ UNCHANGED <<aside, truncated, inputs, estimator, i, pc, batch, received, err, completed,
                   downloaded, progress, emitted, failOrder, started, settled,
                   error, aborted, speedInterval>>

\* Lines 106-110 and 134-139: the request failed, timed out, or the
\* response is not ok; the catch block counts, emits and rethrows.
FetchFail(k, kind) ==
    /\ pc # "loop"
    /\ status[k] = "fetching"
    /\ status' = [status EXCEPT ![k] = "failed"]
    /\ err' = [err EXCEPT ![k] = kind]
    /\ completed' = completed + 1
    /\ emitted' = emitted \cup {k}
    /\ failOrder' = Append(failOrder, k)
    /\ Resume(k, status')
    /\ UNCHANGED <<aside, truncated, inputs, estimator, batch, stream, received, downloaded,
                   progress, started, aborted>>

\* Line 115 emits 'progress' after line 114 has added the chunk: the event
\* carries the new value of `downloaded`, never the one before the chunk.
ReportedStale(old, now) == old
Reported(old, now) == now

\* Lines 113-117: a chunk of len bytes of the response body arrived.  The
\* handler stays attached for as long as the body is open, whatever became
\* of the promise.
Chunk(k) ==
    /\ pc # "loop"
    /\ stream[k] = "open"
    /\ \E len \in 1..(size[k] - received[k]) :
        /\ received' = [received EXCEPT ![k] = @ + len]
        /\ downloaded' = AddChunk(downloaded, len)
        /\ progress' = Reported(downloaded, downloaded')
    /\ UNCHANGED <<aside, truncated, inputs, estimator, i, pc, batch, status, stream, err,
                   completed, emitted, failOrder, started, settled, error,
                   aborted, speedInterval>>

\* Lines 119-123: the response body ended: writer.end(); completed++;
\* resolve().  resolve() has no effect on a promise that already rejected.
BodyEnd(k) ==
    /\ pc # "loop"
    /\ stream[k] = "open"
    /\ received[k] = size[k]
    /\ stream' = [stream EXCEPT ![k] = "ended"]
    /\ completed' = completed + 1
    /\ IF status[k] = "streaming"
       THEN /\ status' = [status EXCEPT ![k] = "completed"]
            /\ Resume(k, status')
       ELSE UNCHANGED <<status, pc, i, settled, error, speedInterval>>
    /\ UNCHANGED <<aside, truncated, inputs, estimator, batch, received, err, downloaded,
                   progress, emitted, failOrder, started, aborted>>

\* Lines 125-132: the response body ("BODY_ERROR") or the file writer
\* ("WRITE_ERROR") raised 'error'; both handlers reject.  A body error closes
\* the body; a writer error leaves it open and its handlers attached.
StreamFail(k, kind) ==
    /\ pc # "loop"
    /\ stream[k] = "open"
    /\ kind = "WRITE_ERROR" => status[k] = "streaming"
    /\ stream' = [stream EXCEPT ![k] = IF kind = "BODY_ERROR" THEN "errored" ELSE @]
    /\ IF status[k] = "streaming"
       THEN /\ status' = [status EXCEPT ![k] = "failed"]
            /\ err' = [err EXCEPT ![k] = kind]
            /\ failOrder' = Append(failOrder, k)
            /\ Resume(k, status')
       ELSE UNCHANGED <<status, err, failOrder, pc, i, settled, error, speedInterval>>
    /\ UNCHANGED <<aside, truncated, inputs, estimator, batch, received, completed, downloaded,
                   progress, emitted, started, aborted>>

\* ---- the estimator tick, lines 83-96 -------------------------------------
Tick ==
    /\ pc # "loop"
    /\ speedInterval
    /\ LET rate == Rate(downloaded - before) IN
       /\ speeds' = Push(speeds, rate)
       /\ recent' = LET r == Append(recent, rate)
                    IN  IF Len(r) > WindowCap + 1 THEN Tail(r) ELSE r
    /\ counted' = counted + (downloaded - before)
    /\ speed' = Mean(speeds')
    /\ estimated' = Divide(totalSize - downloaded, speed')
    /\ before' = NextBefore(before, downloaded)
    /\ UNCHANGED <<aside, truncated, inputs, i, pc, batch, status, stream, received, err,
                   completed, downloaded, progress, emitted, failOrder,
                   started, settled, error, aborted, speedInterval>>

\* ---- Launch.cancel, part_003 lines 756-765 -------------------------------
\* Aborts the AbortController whose signal DownloadGame hands to
\* downloadFileMultiple as a fifth argument (line 699); the method declares
\* four parameters (line 72) and never reads it.
Cancel ==
    /\ pc # "loop"
    /\ ~aborted
    /\ aborted' = TRUE
    /\ UNCHANGED <<aside, truncated, inputs, estimator, i, pc, batch, status, stream, received,
                   err, completed, downloaded, progress, emitted, failOrder,
                   started, settled, error, speedInterval>>

Transfer ==
    \E k \in Files :
        \/ FetchOk(k)
        \/ \E kind \in FetchErrors : FetchFail(k, kind)
        \/ Chunk(k)
        \/ BodyEnd(k)
        \/ \E kind \in StreamErrors : StreamFail(k, kind)

\* Tick reads `downloaded` and `totalSize` and writes only the estimator's
\* own variables, which no other action reads.  Spec leaves the timer silent
\* and covers every list length and limit; EstSpec lets it fire at any turn,
\* for the smaller lists of EstInit.
Next ==
    \/ LoopStep
    \/ Transfer
    \/ Cancel

Spec == Init /\ [][Next]_vars

EstInit ==
    /\ Init
    /\ n \in 1..MaxEstFiles
    /\ requested \in 1..n

EstNext ==
    \/ LoopStep
    \/ Transfer
    \/ Tick
    \/ Cancel

EstSpec == EstInit /\ [][EstNext]_vars

\* The same call for lists of at most MaxEstFiles descriptors whose bodies
\* are up to MaxBytes long, so that chunks of different lengths arrive.
MaxBytes == 2

ByteInit ==
    /\ Entered(MaxEstFiles, MaxBytes)
    /\ n >= 1
    /\ requested \in 1..n
    /\ ProberIdle
    /\ ClassifierIdle
    /\ RetrierIdle
    /\ LimitsIdle
    /\ LauncherIdle

ByteSpec == ByteInit /\ [][Next]_vars

\* ---- checkMirror, lines 170-184 --------------------------------------------
\* checkMirror(baseURL, mirrors) is called: the loop sends the HEAD request
\* of its first mirror and waits at line 173, or returns false at once when
\* there is no mirror to iterate.
CallCheckMirror ==
    /\ cmPc \in {"idle", "done"}
    /\ Len(results) < MaxCalls
    /\ LET j == FirstIndex(cmIdx) IN
       IF j <= Len(mirrors)
       THEN /\ cmPc' = "probing"
            /\ cmIdx' = j
            /\ inflight' = {j}
            /\ contacted' = <<j>>
            /\ UNCHANGED results
       ELSE /\ cmPc' = "done"
            /\ cmIdx' = j
            /\ inflight' = {}
            /\ contacted' = <<>>
            /\ results' = Append(results, NoMirror)
    /\ UNCHANGED <<downloader, limits, launcher, classifier, retrier, mirrors, probe>>

\* The awaited checkURL of line 173 settles (answer, failure or timeout) and
\* the loop runs on to its next await or to a return.
ProbeReturns ==
    /\ cmPc = "probing"
    /\ \E j \in inflight :
       LET r == checkURL(mirrors[j])
           d == Decide(r, cmIdx, Len(mirrors)) IN
       /\ probe' = [called |-> TRUE, response |-> mirrors[j], result |-> r]
       /\ IF d = "next"
          THEN /\ cmIdx' = cmIdx + 1
               /\ inflight' = (inflight \ {j}) \cup {cmIdx + 1}
               /\ contacted' = Append(contacted, cmIdx + 1)
               /\ UNCHANGED <<cmPc, results>>
          ELSE /\ cmPc' = "done"
               /\ inflight' = inflight \ {j}
               /\ results' = Append(results,
                    IF d = "return"
                    THEN [threw |-> FALSE, found |-> TRUE, url |-> Url(cmIdx),
                          size |-> r.size, status |-> r.status]
                    ELSE IF d = "throw" THEN MirrorRejection ELSE NoMirror)
               /\ UNCHANGED <<cmIdx, contacted>>
    /\ UNCHANGED <<downloader, limits, launcher, classifier, retrier, mirrors>>

ProbeInit ==
    /\ NotEntered
    /\ ClassifierIdle
    /\ RetrierIdle
    /\ LimitsIdle
    /\ LauncherIdle
    /\ mirrors \in UNION {[1..m -> Responses] : m \in 0..MaxMirrors}
    /\ cmPc = "idle"
    /\ cmIdx = 0
    /\ inflight = {}
    /\ contacted = <<>>
    /\ probe = NoProbe
    /\ results = <<>>

ProbeNext ==
    \/ CallCheckMirror
    \/ ProbeReturns

ProbeSpec == ProbeInit /\ [][ProbeNext]_vars

\* ---- building classified errors, part_001 ----------------------------------
\* wrapError(error, context) is applied to the error at hand.
WrapErrorCall ==
    /\ classified.by = "none"
    /\ classified' = [by |-> "wrapError",
                      object |-> wrapError(thrown.message, thrown.context)]
    /\ UNCHANGED <<downloader, limits, launcher, prober, retrier, thrown, verdict>>

\* new DownloadError(message, url, statusCode) is built for the failed
\* request at hand.
DownloadErrorCall ==
    /\ classified.by = "none"
    /\ classified' = [by |-> "DownloadError",
                      object |-> DownloadError(thrown.message, thrown.statusCode)]
    /\ UNCHANGED <<downloader, limits, launcher, prober, retrier, thrown, verdict>>

\* isRecoverableError(error) is asked about the raw error at hand
\* (lines 266-273).
IsRecoverableRawCall ==
    /\ ~verdict.askedRaw
    /\ verdict' = [verdict EXCEPT !.askedRaw = TRUE,
                                  !.raw = IncludesRetryable(thrown.message)]
    /\ UNCHANGED <<downloader, limits, launcher, prober, retrier, thrown,
                   classified>>

\* isRecoverableError(error) is asked about the object that was built, an
\* instance of OriCoreError: it answers the object's flag (lines 261-263).
IsRecoverableBuiltCall ==
    /\ classified.by # "none"
    /\ ~verdict.askedBuilt
    /\ verdict' = [verdict EXCEPT !.askedBuilt = TRUE,
                                  !.built = classified.object.recoverable]
    /\ UNCHANGED <<downloader, limits, launcher, prober, retrier, thrown,
                   classified>>

ClassInit ==
    /\ NotEntered
    /\ ProberIdle
    /\ RetrierIdle
    /\ LimitsIdle
    /\ LauncherIdle
    /\ verdict = NoVerdict
    /\ thrown \in [message : SUBSET Words, context : Contexts,
                   statusCode : HttpStatuses]
    /\ classified = NotClassified

ClassNext ==
    \/ WrapErrorCall
    \/ DownloadErrorCall
    \/ IsRecoverableRawCall
    \/ IsRecoverableBuiltCall

ClassSpec == ClassInit /\ [][ClassNext]_vars

\* ---- fetchWithRetry, part_003 lines 12-32: the steps -----------------------
\* The awaited fetch of line 16 settles with `answer`.
RequestAnswered(answer) ==
    /\ frPc = "request"
    /\ answers' = Append(answers, answer)
    /\ IF Handle(answer) = "return"
       THEN /\ frPc' = "returned"
            /\ frResult' = answer
            /\ UNCHANGED <<frI, delays, lastError>>
       ELSE /\ lastError' = [attempt |-> frI + 1, answer |-> answer]
            /\ frResult' = 0
            /\ IF WaitsAfter(frI, retries)
               THEN /\ frPc' = "delay"
                    /\ delays' = delays + 1
                    /\ frI' = frI
               ELSE \* i++ and the loop condition of line 14
                    /\ frI' = frI + 1
                    /\ frPc' = IF frI + 1 < retries THEN "request" ELSE "threw"
                    /\ delays' = delays
    /\ UNCHANGED <<downloader, limits, launcher, prober, classifier, retries>>

\* The timer of line 27 fires: i++, and the loop sends the next request
\* when its condition holds.
DelayElapsed ==
    /\ frPc = "delay"
    /\ frI' = frI + 1
    /\ frPc' = IF frI + 1 < retries THEN "request" ELSE "threw"
    /\ UNCHANGED <<downloader, limits, launcher, prober, classifier, retries,
                   answers, delays, lastError, frResult>>

RetryInit ==
    /\ NotEntered
    /\ ProberIdle
    /\ ClassifierIdle
    /\ LimitsIdle
    /\ LauncherIdle
    /\ \E r \in 0..MaxRetries : Called(r)

RetryNext ==
    \/ \E answer \in FetchAnswers : RequestAnswered(answer)
    \/ DelayElapsed

RetrySpec == RetryInit /\ [][RetryNext]_vars

\* ---- validation of the concurrency option ----------------------------------
\* Launch.Launch of src/src/Launch.ts validates the option (line 91).
LaunchTsValidates ==
    /\ validated.by = "none"
    /\ validated' = [by |-> "Launch.ts", value |-> ValidateLaunchTs(option)]
    /\ UNCHANGED <<downloader, prober, classifier, retrier, launcher, option>>

\* Launch.Launch of part_003 validates the option (lines 493-494).
Part003Validates ==
    /\ validated.by = "none"
    /\ validated' = [by |-> "part_003", value |-> ValidatePart003(option)]
    /\ UNCHANGED <<downloader, prober, classifier, retrier, launcher, option>>

LimitInit ==
    /\ NotEntered
    /\ ProberIdle
    /\ ClassifierIdle
    /\ RetrierIdle
    /\ LauncherIdle
    /\ option \in Options
    /\ validated = NotValidated

LimitNext ==
    \/ LaunchTsValidates
    \/ Part003Validates

LimitSpec == LimitInit /\ [][LimitNext]_vars

\* ---- Launch.start, DownloadGame and cancel: the steps ----------------------
\* What every step of the launcher leaves alone.
LaunchFrame == UNCHANGED <<downloader, prober, classifier, retrier, limits, launches>>

\* start() returns at a check of isCancelled (lines 509-531, 565, 628-737):
\* nothing is emitted and the monitor is not stopped.
ReturnsCancelled ==
    /\ lpc' = "ended"
    /\ ending' = "cancelled"
    /\ UNCHANGED <<isCancelled, isLaunching, memoryCheckInterval, timers,
                   minecraftProcess, complete, cancelCalled, errorEvents, failure,
                   downloadsComplete>>

\* Launch(opt) calls start() (lines 497, 500-514): the flags are reset, the
\* monitor sets its sampling interval (Downloader.ts lines 224-237, which
\* overwrite the handle without clearing it) and DownloadGame reaches its
\* first await (line 630).
LaunchCall ==
    /\ lpc \in {"idle", "ended"}
    /\ launches < MaxLaunches
    /\ launches' = launches + 1
    /\ lpc' = "prepare"
    /\ isCancelled' = FALSE
    /\ isLaunching' = TRUE
    /\ memoryCheckInterval' = TRUE
    /\ timers' = timers + 1
    /\ minecraftProcess' = FALSE
    /\ complete' = FALSE
    /\ downloadsComplete' = FALSE
    /\ cancelCalled' = FALSE
    /\ errorEvents' = 0
    /\ failure' = "none"
    /\ ending' = "none"
    /\ UNCHANGED <<downloader, prober, classifier, retrier, limits,
                   downloadsComplete>>

\* Lines 630-699: the awaits of DownloadGame before the download are over;
\* downloadFileMultiple is called when files are missing (line 659).
PrepareDone ==
    /\ lpc = "prepare"
    /\ IF isCancelled
       THEN ReturnsCancelled
       ELSE /\ lpc' \in {"download", "finish"}
            /\ UNCHANGED <<isCancelled, isLaunching, memoryCheckInterval, timers,
                           minecraftProcess, complete, cancelCalled, errorEvents,
                           failure, ending,
                   downloadsComplete>>
    /\ LaunchFrame

\* Lines 630-636 and 515-519: GetInfoVersion answers an error object;
\* DownloadGame emits it and returns it, and start() emits it again.
PrepareFails ==
    /\ lpc = "prepare"
    /\ IF isCancelled
       THEN ReturnsCancelled
       ELSE /\ lpc' = "ended"
            /\ ending' = "errorResult"
            /\ errorEvents' = errorEvents + 2
            /\ isLaunching' = FALSE
            /\ UNCHANGED <<isCancelled, memoryCheckInterval, timers,
                           minecraftProcess, complete, cancelCalled, failure,
                   downloadsComplete>>
    /\ LaunchFrame

\* Lines 699-711: downloadFileMultiple resolved; 'downloads_complete' is
\* emitted before isCancelled is looked at.
DownloadResolves ==
    /\ lpc = "download"
    /\ downloadsComplete' = TRUE
    /\ IF isCancelled
       THEN /\ lpc' = "ended"
            /\ ending' = "cancelled"
       ELSE /\ lpc' = "finish"
            /\ ending' = ending
    /\ UNCHANGED <<isCancelled, isLaunching, memoryCheckInterval, timers,
                   minecraftProcess, complete, cancelCalled, errorEvents, failure>>
    /\ LaunchFrame

\* One transfer failed with an error of the given kind.  The handler of
\* lines 682-696 runs for the downloader's 'error' event, if there is one;
\* downloadFileMultiple rejects, the catch of lines 701-709 rethrows and
\* the catch of start() (lines 620-623) emits 'error'.
DownloadRejects(kind) ==
    /\ lpc = "download"
    /\ failure' = kind
    /\ errorEvents' = errorEvents
                       + (IF DownloaderEmits(kind) THEN ErrorsPerDownloaderEvent ELSE 0)
                       + 1
    /\ isLaunching' = FALSE
    /\ lpc' = "ended"
    /\ ending' = "exception"
    /\ UNCHANGED <<isCancelled, memoryCheckInterval, timers, minecraftProcess,
                   complete, cancelCalled,
                   downloadsComplete>>
    /\ LaunchFrame

\* Lines 712-754 and 514-522: the rest of DownloadGame is over and start()
\* awaits the arguments.
FinishDone ==
    /\ lpc = "finish"
    /\ IF isCancelled
       THEN ReturnsCancelled
       ELSE /\ lpc' = "arguments"
            /\ UNCHANGED <<isCancelled, isLaunching, memoryCheckInterval, timers,
                           minecraftProcess, complete, cancelCalled, errorEvents,
                           failure, ending,
                   downloadsComplete>>
    /\ LaunchFrame

\* Lines 523-530: the game's arguments are there and start() awaits the
\* loader's.
ArgumentsDone ==
    /\ lpc = "arguments"
    /\ IF isCancelled
       THEN ReturnsCancelled
       ELSE /\ lpc' = "loaderArguments"
            /\ UNCHANGED <<isCancelled, isLaunching, memoryCheckInterval, timers,
                           minecraftProcess, complete, cancelCalled, errorEvents,
                           failure, ending,
                   downloadsComplete>>
    /\ LaunchFrame

\* Lines 530-609: the loader's arguments are there, the game is spawned and
\* start() waits the second of line 609.
LoaderArgumentsDone ==
    /\ lpc = "loaderArguments"
    /\ IF isCancelled
       THEN ReturnsCancelled
       ELSE /\ lpc' = "running"
            /\ minecraftProcess' = TRUE
            /\ UNCHANGED <<isCancelled, isLaunching, memoryCheckInterval, timers,
                           complete, cancelCalled, errorEvents, failure, ending,
                   downloadsComplete>>
    /\ LaunchFrame

\* Lines 524-529 and 532-536: GetArguments answers an error object, which
\* start() emits.
ArgumentsFail ==
    /\ lpc \in {"arguments", "loaderArguments"}
    /\ IF isCancelled
       THEN ReturnsCancelled
       ELSE /\ lpc' = "ended"
            /\ ending' = "errorResult"
            /\ errorEvents' = errorEvents + 1
            /\ isLaunching' = FALSE
            /\ UNCHANGED <<isCancelled, memoryCheckInterval, timers,
                           minecraftProcess, complete, cancelCalled, failure,
                   downloadsComplete>>
    /\ LaunchFrame

\* Lines 609-619: the second is over; stopMonitoring clears the interval of
\* the handle (Downloader.ts lines 263-266) and 'complete' is emitted.
\* isCancelled is not looked at.  (cancel() keeps the process object until
\* its own wait of a second, started later, is over: lines 767-777.)
WaitOver ==
    /\ lpc = "running"
    /\ timers' = IF memoryCheckInterval THEN timers - 1 ELSE timers
    /\ memoryCheckInterval' = FALSE
    /\ complete' = TRUE
    /\ isLaunching' = FALSE
    /\ lpc' = "ended"
    /\ ending' = "complete"
    /\ UNCHANGED <<isCancelled, minecraftProcess, cancelCalled, errorEvents, failure,
                   downloadsComplete>>
    /\ LaunchFrame

\* Lines 756-803: cancel() is called while start() is suspended.
CancelCall ==
    /\ lpc \notin {"idle", "ended"}
    /\ ~cancelCalled
    /\ isCancelled' = TRUE
    /\ isLaunching' = FALSE
    /\ cancelCalled' = TRUE
    /\ UNCHANGED <<lpc, memoryCheckInterval, timers, minecraftProcess, complete,
                   errorEvents, failure, ending,
                   downloadsComplete>>
    /\ LaunchFrame

LaunchInit ==
    /\ NotEntered
    /\ ProberIdle
    /\ ClassifierIdle
    /\ RetrierIdle
    /\ LimitsIdle
    /\ LauncherIdle

LaunchNext ==
    \/ LaunchCall
    \/ PrepareDone
    \/ PrepareFails
    \/ DownloadResolves
    \/ \E kind \in FetchErrors \cup StreamErrors : DownloadRejects(kind)
    \/ FinishDone
    \/ ArgumentsDone
    \/ LoaderArgumentsDone
    \/ ArgumentsFail
    \/ WaitOver
    \/ CancelCall

LaunchSpec == LaunchInit /\ [][LaunchNext]_vars

\* Every runnable continuation runs, and every request ends (with a response,
\* an error or the per-request timeout) and every body ends or fails.
\* Cancellation is the user's choice and is not forced.
FairSpec == Spec /\ WF_vars(LoopStep) /\ WF_vars(Transfer)

TypeOK ==
    /\ n \in 0..MaxFiles
    /\ limit \in (0 - MaxNegLimit)..MaxLimit
    /\ pc \in {"loop", "await", "done"}
    /\ batch \subseteq Files
    /\ status \in [Files -> {"queued", "fetching", "streaming", "completed", "failed"}]
    /\ stream \in [Files -> {"none", "open", "ended", "errored"}]
    /\ err \in [Files -> ErrorKinds \cup {"none"}]
    /\ settled \in {"pending", "resolved", "rejected"}
    /\ error \in 0..n
    /\ aborted \in BOOLEAN
    /\ speedInterval \in BOOLEAN
    /\ Len(speeds) <= WindowCap + 1
    /\ cmPc \in {"idle", "probing", "done"}
    /\ cmIdx \in 0..Len(mirrors) + 1
    /\ inflight \subseteq 1..Len(mirrors)
    /\ Len(results) <= MaxCalls
    /\ classified.by \in {"none", "wrapError", "DownloadError"}
    /\ truncated \subseteq Files
    /\ verdict \in [askedRaw : BOOLEAN, raw : BOOLEAN,
                    askedBuilt : BOOLEAN, built : BOOLEAN]
    /\ retries \in 0..MaxRetries
    /\ frPc \in {"idle", "request", "delay", "returned", "threw"}
    /\ Len(answers) <= MaxRetries
    /\ validated.by \in {"none", "Launch.ts", "part_003"}
    /\ lpc \in {"idle", "prepare", "download", "finish", "arguments",
                "loaderArguments", "running", "ended"}
    /\ ending \in {"none", "complete", "errorResult", "exception", "cancelled"}
    /\ timers \in 0..MaxLaunches
    /\ launches \in 0..MaxLaunches

\* ==== Claims ==============================================================
\* States in which downloadFileMultiple is between two turns of the event
\* loop (pc = "loop" is the middle of a turn).
AtRest == pc # "loop"

\* C1: with limit >= 1, the number of transfers that have been started and
\* have not reached a terminal state is at most min(limit, files.length).
C1_ConcurrencyCeiling ==
    requested >= 1 => Cardinality(Active) <= Min(requested, n)
C1_Witness ==
    /\ requested >= 2 /\ n > requested
    /\ Cardinality(Active) = requested
    /\ Queued # {}

\* C2: a failed transfer does not halt admission: once some transfer has
\* failed (limit >= 1), every descriptor of the list is eventually started.
C2_FailureDoesNotHaltAdmission ==
    (requested >= 1 /\ Failed # {}) ~> (Queued = {})

\* C3: work-conserving admission: while the call waits for transfers and
\* descriptors are still queued, exactly `limit` transfers are active.
C3_WorkConserving ==
    (requested >= 1 /\ pc = "await" /\ Queued # {}) => Cardinality(Active) = limit

\* C4: once cancellation is triggered, no descriptor that has not been
\* started is started afterwards.
C4_CancelStopsAdmission ==
    [][(requested >= 1 /\ aborted) => \A k \in Files : status[k] = "queued" => status'[k] = "queued"]_vars

\* C5: a batch that is cancelled before it settles settles with a dedicated
\* cancellation failure, never with success nor with another error kind.
C5_CancelSettlesCancelled ==
    [][(requested >= 1 /\ aborted /\ AtRest /\ settled = "pending" /\ settled' # "pending")
         => (settled' = "rejected" /\ error' # 0 /\ err'[error'] = "CANCELLED")]_vars

\* C6: a limit below 1 behaves as limit 1: the call eventually settles.
C6_LowerClamp ==
    (requested < 1) => <>(settled # "pending")

\* C7: a limit above files.length behaves as files.length: the effective
\* limit is files.length, the whole list is admitted as one group, and for
\* an empty list the call resolves without starting any transfer.
C7_UpperClamp ==
    requested > n =>
        /\ limit = n
        /\ AtRest => Queued = {}
        /\ (n = 0 /\ AtRest) => (settled = "resolved" /\ completed = 0)
C7_Witness ==
    /\ requested > n /\ n >= 2
    /\ settled = "resolved"
    /\ i = n

\* C8: a transfer that times out fails alone: while descriptors are still
\* queued behind it, its failure does not settle the batch.
C8_TimeoutIsolation ==
    [][\A k \in Files :
          (requested >= 1 /\ status[k] = "fetching" /\ status'[k] = "failed"
             /\ err'[k] = "TIMEOUT" /\ Queued # {})
          => settled' = "pending"]_vars

\* C9: the returned promise resolves only if every descriptor has reached
\* the completed state.
C9_ResolveOnlyIfAllCompleted ==
    settled = "resolved" => \A k \in Files : status[k] = "completed"
C9_Witness ==
    /\ settled = "resolved" /\ n >= 2 /\ limit >= 1 /\ limit < n
    /\ \A k \in Files : status[k] = "completed"

\* The first descriptor, in failure order, whose error is non-recoverable.
FirstNonRecoverable ==
    LET idx == {j \in 1..Len(failOrder) : ~isRecoverableError(err[failOrder[j]])}
    IN  failOrder[CHOOSE j \in idx : \A l \in idx : j <= l]

\* C10: when at least one recorded failure is non-recoverable, the call
\* fails with the first non-recoverable error, even when a recoverable
\* failure occurred earlier.
C10_FirstNonRecoverableWins ==
    (requested >= 1 /\ settled = "rejected" /\ \E k \in Failed : ~isRecoverableError(err[k]))
        => error = FirstNonRecoverable

\* C11: no failure is silent: every failed transfer has had an 'error' event
\* emitted for it, and the outcome of the batch is a failure.
C11_NoSilentFailure ==
    AtRest => \A k \in Failed : k \in emitted /\ settled = "rejected"

\* C12: every error emitted on the 'error' channel or used to reject the
\* call is a classified error (an OriCoreError), never a raw Error.
C12_OnlyClassifiedErrors ==
    /\ \A k \in emitted : ErrorClass(err[k]) \in OriCoreErrors
    /\ error # 0 => ErrorClass(err[error]) \in OriCoreErrors

\* C13: once the call has settled the estimator timer is cleared, and no
\* further 'speed' or 'estimated' event is emitted.
C13_EstimatorTeardown ==
    [][settled' # "pending" =>
          /\ ~speedInterval'
          /\ settled # "pending" =>
                <<recent, speeds, speed, estimated>>' = <<recent, speeds, speed, estimated>>]_vars
C13_Witness ==
    /\ settled = "rejected" /\ ~speedInterval
    /\ Active # {}
    /\ Len(recent) >= 1

\* C14: the window holds exactly the min(ticks, 5) most recently measured
\* rates, in measurement order, and never more than 5.
C14_WindowIsLastFive ==
    /\ Len(speeds) <= WindowCap
    /\ speeds = LastOf(recent, Min(Len(recent), WindowCap))
C14_Witness ==
    /\ Len(recent) = WindowCap + 1
    /\ recent[1] # 0 /\ recent[2] = 0
    /\ speeds[WindowCap] # 0

\* C15: the 'speed' event carries the mean of the window, each sample is the
\* rate of the bytes received since the previous tick, and every byte
\* received up to the last tick is counted in exactly one interval.
C15_IntervalAccounting ==
    /\ speed.kind = "number" =>
          speed.num * Len(speeds) = SumSeq(speeds) * speed.den
    /\ counted = before
    /\ before <= downloaded
    /\ Len(recent) <= WindowCap => SumSeq(recent) * IntervalMs = counted * 1000
C15_Witness ==
    /\ Len(speeds) >= 2 /\ speed.num > 0
    /\ counted >= 1
    /\ downloaded > before

\* C16: when the smoothed speed is zero the 'estimated' event carries a
\* dedicated sentinel, not the result of the division by zero.
C16_ZeroSpeedSentinel ==
    (speed.kind = "number" /\ speed.num = 0) => estimated.kind = "unknown"

\* C17: when the call resolves and the declared total is accurate, the
\* completed counter equals files.length and the last 'progress' event
\* reported bytesSoFar = totalSize.
C17_AllSucceedTotals ==
    (settled = "resolved" /\ n > 0 /\ totalSize = SumSize(size, n)) =>
        /\ completed = n
        /\ progress = totalSize
C17_Witness ==
    /\ settled = "resolved" /\ n >= 2 /\ limit < n
    /\ totalSize = SumSize(size, n)
    /\ progress = totalSize

\* C18: with exactly one descriptor failed by an HTTP 404 and all others
\* succeeded, the completed counter is files.length - 1 and the outcome is
\* a failure.
C18_CompletedCountsSuccesses ==
    (/\ AtRest /\ n >= 2
     /\ Cardinality(Failed) = 1
     /\ \A k \in Failed : err[k] = "HTTP_404"
     /\ \A k \in Files \ Failed : status[k] = "completed")
    => (completed = n - 1 /\ settled = "rejected")

\* C19: terminal states are absorbing: a failed transfer is never afterwards
\* counted as completed, a completed transfer never fails afterwards, and no
\* descriptor is started twice.
C19_TerminalAbsorbing ==
    [][/\ \A k \in Files :
            /\ status[k] = "failed" =>
                  (status'[k] = "failed" /\ (stream'[k] # stream[k] => completed' = completed))
            /\ status[k] = "completed" => status'[k] = "completed"
       /\ \A a, b \in 1..Len(started') : a # b => started'[a] # started'[b]]_vars

\* C20: descriptors are admitted in list order: a descriptor is never
\* started before one of lower index.
C20_FifoAdmission ==
    /\ \A a, b \in 1..Len(started) : a < b => started[a] < started[b]
    /\ \A a, b \in Files : (a < b /\ status[b] # "queued") => status[a] # "queued"
C20_Witness ==
    /\ Len(started) = 3
    /\ limit = 2
    /\ status[3] = "streaming"

\* C21: the bytesSoFar of 'progress' events never decreases, and each event
\* exceeds the one before it by exactly the length of the chunk that
\* triggered it, however the chunks of concurrent transfers interleave.
C21_ProgressGrowsByChunk ==
    [][\A k \in Files :
          received'[k] # received[k] =>
             /\ progress' = (IF progress = -1 THEN 0 ELSE progress)
                              + (received'[k] - received[k])
             /\ progress' > progress]_vars
C21_Witness ==
    /\ requested = 2
    /\ received[1] > 0 /\ received[1] < size[1]
    /\ received[2] > 0 /\ received[2] < size[2]
    /\ progress = received[1] + received[2]

\* C22: checkMirror returns the first mirror, in list order, whose probe
\* succeeds, as the URL made of the mirror, '/' and the path, with the size
\* it advertises; failing mirrors are skipped; if none succeeds the result
\* is false; checkMirror never rejects.
C22_FirstSuccessfulMirror ==
    \A c \in 1..Len(results) :
        LET ok == {j \in 1..Len(mirrors) :
                     mirrors[j].outcome = "response" /\ mirrors[j].status = 200}
        IN  /\ ~results[c].threw
            /\ ok = {} => ~results[c].found
            /\ ok # {} =>
                 LET first == CHOOSE j \in ok : \A h \in ok : j <= h
                 IN  /\ results[c].found
                     /\ results[c].url = <<first, "/", "baseURL">>
                     /\ results[c].size =
                          (IF mirrors[first].length = <<1, 0>> THEN 10 ELSE 0)
C22_Witness ==
    /\ Len(mirrors) = 3
    /\ mirrors[1].outcome = "timeout"
    /\ mirrors[2].status = 404
    /\ Len(results) >= 1
    /\ results[1].found
    /\ results[1].url = <<3, "/", "baseURL">>
    /\ results[1].size = 10

\* C23: checkMirror probes one mirror at a time and stops at the first
\* success: at most one probe is in flight, and no mirror that comes after
\* a successful one is contacted.
C23_SequentialShortCircuit ==
    /\ Cardinality(inflight) <= 1
    /\ \A p \in 1..Len(contacted) :
          \A h \in 1..(contacted[p] - 1) :
             ~(mirrors[h].outcome = "response" /\ mirrors[h].status = 200)
C23_Witness ==
    /\ Len(mirrors) = 3
    /\ cmPc = "done"
    /\ contacted = <<1, 2>>
    /\ results[Len(results)].found
    /\ mirrors[3].outcome = "response" /\ mirrors[3].status = 200

\* C24: checkURL succeeds exactly when the response status is 200, and then
\* returns the advertised content length, or 0 when the header is absent;
\* for any other status, a network failure or a timeout it returns false
\* and never throws.
C24_CheckURL ==
    probe.called =>
        /\ ~probe.result.threw
        /\ probe.result.found <=>
              (probe.response.outcome = "response" /\ probe.response.status = 200)
        /\ probe.result.found =>
              /\ probe.result.status = 200
              /\ probe.result.size =
                   (IF probe.response.length = <<1, 0>> THEN 10 ELSE 0)
C24_Witness ==
    /\ probe.called
    /\ probe.response.status = 200
    /\ probe.response.length = <<>>
    /\ probe.result.found
    /\ probe.result.size = 0

\* C25: checkMirror is idempotent: called again with the same path and
\* mirror list while the mirrors answer as before, it returns what it
\* returned the first time.
C25_Idempotent ==
    \A a, b \in 1..Len(results) : results[a] = results[b]
C25_Witness ==
    /\ Len(results) = 2
    /\ results[2].found
    /\ results[2].url = <<2, "/", "baseURL">>

\* C26: a failure with an HTTP status is recoverable unless the status is a
\* client error: a DownloadError built for a status in 400..499 has
\* recoverable = false, one built for a status in 500..599 has
\* recoverable = true.
C26_ClientErrorsNotRecoverable ==
    classified.by = "DownloadError" =>
        (classified.object.recoverable <=> ~(thrown.statusCode \in 400..499))

\* C27: wrapError is total: whatever the message of the error and whether
\* or not a context is given, it returns a classified error (a kind, a code
\* and a recoverability flag) and does not throw.
C27_WrapErrorTotal ==
    classified.by = "wrapError" =>
        /\ classified.object.name \in
              {"ConnectionError", "TimeoutError", "FileSystemError", ""}
        /\ classified.object.code \in
              {"CONNECTION_REFUSED", "TIMEOUT_ERROR", "DNS_LOOKUP_FAILED",
               "FILE_NOT_FOUND", "PERMISSION_DENIED", "DISK_FULL",
               "UNKNOWN_ERROR"}
        /\ classified.object.recoverable \in BOOLEAN
C27_Witness ==
    /\ classified.by = "wrapError"
    /\ ~thrown.context.given
    /\ thrown.message = {"EACCES"}
    /\ classified.object.name = "FileSystemError"
    /\ classified.object.operation = "access"

\* C28: wrapError maps messages of a reset or refused connection, a failed
\* lookup and a timeout to a recoverable ConnectionError or TimeoutError,
\* and messages of ENOENT, EACCES, EPERM and ENOSPC to a non-recoverable
\* FileSystemError; when patterns of both groups match, the network
\* classification wins.
C28_PatternClasses ==
    classified.by = "wrapError" =>
        LET net == thrown.message \cap
                     {"ECONNRESET", "ECONNREFUSED", "ENOTFOUND", "ETIMEDOUT"}
            fs == thrown.message \cap {"ENOENT", "EACCES", "EPERM", "ENOSPC"}
        IN  /\ net # {} =>
                 /\ classified.object.name \in {"ConnectionError", "TimeoutError"}
                 /\ classified.object.recoverable
            /\ (net # {} /\ "ETIMEDOUT" \notin net) =>
                 classified.object.name = "ConnectionError"
            /\ net = {"ETIMEDOUT"} => classified.object.name = "TimeoutError"
            /\ (net = {} /\ fs # {}) =>
                 /\ classified.object.name = "FileSystemError"
                 /\ ~classified.object.recoverable
C28_Witness ==
    /\ classified.by = "wrapError"
    /\ thrown.message = {"ENOENT", "ENOTFOUND"}
    /\ classified.object.name = "ConnectionError"
    /\ classified.object.recoverable

\* C29: an error whose message matches no known pattern is wrapped with
\* code UNKNOWN_ERROR and recoverable = false, and keeps its message.
C29_UnknownError ==
    (classified.by = "wrapError" /\ thrown.message \cap Patterns = {}) =>
        /\ classified.object.code = "UNKNOWN_ERROR"
        /\ ~classified.object.recoverable
        /\ classified.object.message = thrown.message
C29_Witness ==
    /\ classified.by = "wrapError"
    /\ thrown.message = {"HTTP", "hang up"}
    /\ classified.object.code = "UNKNOWN_ERROR"

\* C30: when the file writer of a transfer fails, the transfer stops: after
\* the writer's 'error' no further chunk of that transfer is handed to the
\* writer (line 116 writes every chunk the 'data' handler receives).
C30_WriteFailureStopsTransfer ==
    [][\A k \in Files :
          (requested >= 1 /\ status[k] = "failed" /\ err[k] = "WRITE_ERROR")
             => received'[k] = received[k]]_vars

\* C31: the call settles only after every started transfer has reached a
\* terminal state: once the returned promise has resolved or rejected no
\* transfer is active, no 'progress' event is emitted and the shared byte
\* counter does not change.
C31_SettledMeansQuiet ==
    [][(requested >= 1 /\ settled # "pending") =>
          /\ Active = {}
          /\ downloaded' = downloaded
          /\ progress' = progress]_vars

\* C32: the descriptors are started in consecutive groups of `limit`; a
\* group is started only when every descriptor started before it has
\* completed successfully, and once a transfer has failed nothing more is
\* started.
C32_GroupBarrier ==
    [][/\ started' # started =>
            /\ \A p \in 1..Len(started) : status[started[p]] = "completed"
            /\ requested >= 1 =>
                 /\ Len(started') = Len(started) + Min(limit, n - Len(started))
                 /\ \A p \in 1..Len(started') : started'[p] = p
       /\ Failed # {} => started' = started]_vars
C32_Witness ==
    /\ requested = 2
    /\ started = <<1, 2, 3>>
    /\ status[1] = "completed" /\ status[2] = "completed"
    /\ status[3] = "failed"

\* C33: a transfer that fails before it received any byte (status not OK,
\* connection failure or timeout) leaves the content of a destination file
\* that already existed as it was.
C33_EarlyFailureKeepsFile ==
    \A k \in Files :
        (requested >= 1 /\ status[k] = "failed" /\ err[k] \in FetchErrors
            /\ received[k] = 0)
        => k \notin truncated

\* C35: isRecoverableError and wrapError agree on raw errors: what
\* isRecoverableError answers for a raw error is the recoverable flag of the
\* object wrapError builds from it, and is also what isRecoverableError
\* answers for that object.
C35_RecoverableAgrees ==
    classified.by = "wrapError" =>
        /\ verdict.askedRaw => verdict.raw = classified.object.recoverable
        /\ (verdict.askedRaw /\ verdict.askedBuilt) => verdict.built = verdict.raw
C35_Witness ==
    /\ classified.by = "wrapError"
    /\ thrown.message = {"ENOTFOUND", "ENOENT"}
    /\ verdict.askedRaw /\ verdict.raw
    /\ verdict.askedBuilt /\ verdict.built

\* C39: fetchWithRetry makes at most `retries` requests; a network failure
\* or a 5xx response is followed by another attempt after a delay, with no
\* delay after the last attempt; an ok response or any other response
\* below 500 is returned at once; when every attempt failed the error of
\* the last attempt is thrown.
C39_RetryDiscipline ==
    LET failed(a) == a = 0 \/ a >= 500
        made == Len(answers) + (IF frPc = "request" THEN 1 ELSE 0)
        failures == Cardinality({p \in 1..Len(answers) : failed(answers[p])})
    IN  /\ made <= retries
        /\ \A p \in 1..(Len(answers) - 1) : failed(answers[p])
        /\ delays = failures -
              (IF Len(answers) = retries /\ retries > 0 /\ failed(answers[retries])
               THEN 1 ELSE 0)
        /\ frPc \in {"request", "delay"} => failures = Len(answers)
        /\ frPc = "returned" =>
              /\ ~failed(answers[Len(answers)])
              /\ frResult = answers[Len(answers)]
        /\ frPc = "threw" =>
              /\ Len(answers) = retries
              /\ failures = retries
              /\ retries > 0 =>
                   lastError = [attempt |-> retries, answer |-> answers[retries]]
C39_Witness ==
    /\ retries = 3
    /\ frPc = "threw"
    /\ answers = <<0, 500, 503>>
    /\ delays = 2
    /\ lastError = [attempt |-> 3, answer |-> 503]

\* C34: one failure, one error event: a launch in which one transfer failed
\* emits that failure exactly once to the listeners of the Launch emitter's
\* 'error' event.
C34_OneErrorEvent ==
    failure # "none" => errorEvents = 1

\* C36: whatever the caller gives for downloadFileMultiple (0, a negative
\* number, a number above 30, or nothing), the limit the launcher uses is
\* in 1..30, and 0 becomes the minimum 1.
C36_LimitValidated ==
    validated.by # "none" =>
        /\ validated.value \in 1..30
        /\ (option.given /\ option.value = 0) => validated.value = 1

\* C37: after cancel() has been called during a launch, that launch does
\* not spawn the game and does not emit 'complete', at whichever await of
\* start() or DownloadGame() the call arrives.
C37_CancelStopsLaunch ==
    [][(cancelCalled /\ cancelCalled') =>
          /\ minecraftProcess' => minecraftProcess
          /\ complete' => complete]_vars

\* C38: every launch that ended, however it ended, leaves no memory
\* sampling timer of the PerformanceMonitor running, and at most one such
\* timer is active at any time across successive launches.
C38_NoTimerLeft ==
    /\ lpc = "ended" => timers = 0
    /\ timers <= 1
====
